---- MODULE Spec2Model ----
(***************************************************************************)
(* Model of the signaling broker of src/server.js: the connection registry *)
(* (clients), the room table (rooms), the handlers of the 'upgrade',       *)
(* 'data' and 'close' events, and the frames the broker writes to each     *)
(* connection's socket.                                                    *)
(*                                                                         *)
(* Node runs every handler to completion on one event loop, so each        *)
(* handler is one atomic action.  The 'data' action takes as input the     *)
(* list of text messages parseFrames returns for the chunk (line 153).     *)
(* A decoded message is modelled by its JSON value; text that JSON.parse   *)
(* rejects is the value of type "garbage".                                 *)
(***************************************************************************)
EXTENDS Naturals, Integers, Sequences, FiniteSets, TLC

\* ---------------------------------------------------------------- bounds
MaxConn == 3      \* connections accepted in one run
MaxChunk == 2     \* decoded messages in one chunk

\* ------------------------------------------------------------ vocabulary
Ids == 1 .. MaxConn

\* clients.set(clientId, { ..., roomId: null })
NoRoom == "<null>"

\* room names a client can put in join{roomId}; "" is a string that
\* JavaScript treats as false in a condition
RoomNames == {"", "R"}

\* the `to` field of a signal: 0 stands for "absent"
NoTo == 0
Tos == {NoTo, 1}

\* truthiness of client.roomId as used in `message.type === 'signal' && client.roomId`
\* and `roomId && rooms.has(roomId)`
Truthy(roomId) == roomId # NoRoom /\ roomId # ""

JoinMsg(r) == [type |-> "join", roomId |-> r]
SignalMsg(t) == [type |-> "signal", to |-> t]
GarbageMsg == [type |-> "garbage"]

\* the decoded messages a client sends
RawMessages ==
  {JoinMsg(r) : r \in RoomNames} \cup {SignalMsg(t) : t \in Tos} \cup {GarbageMsg}

\* a chunk carries one message, or several that TCP coalesced; the coalesced
\* ones are drawn from a smaller set
BurstMessages == {JoinMsg("R"), SignalMsg(NoTo), GarbageMsg}

Singles == {<<raw>> : raw \in RawMessages}
Bursts == UNION {[1 .. n -> BurstMessages] : n \in 2 .. MaxChunk}
Chunks == Singles \cup Bursts

\* ------------------------------------------------------------- state
VARIABLES
  clients,   \* registry: clientId -> [roomId]            (server.js:32)
  rooms,     \* room table: roomId -> list of clientIds in insertion order (server.js:31)
  used,      \* ids handed out by crypto.randomUUID()
  closed,    \* connections whose 'close' handler has run
  ev,        \* the event the last step handled: its kind, its connection, the rooms its
             \* join messages name, the room a closing connection had, and whether the
             \* connection was already disconnected
  writes,    \* the frames the last step wrote to sockets, in the order of the socket.write calls
  joinedBy,  \* clientId -> the room names it has joined, while its socket is open
  view       \* clientId -> the member set its client derives from the frames sent to it

\* the browser clients of public/app.js attached to the broker (SpecRoom)
VARIABLES
  state,     \* tab -> the `state` object of app.js: ws, roomId, clientId, peers (app.js:1-15)
  up,        \* connection id -> the messages its client sent that the broker has not handled yet
  down,      \* connection id -> the frames the broker wrote that the client has not handled yet
  closing,   \* connections the client closed whose 'close' event the broker has not handled yet
  owner      \* connection id -> the tab that opened it

roomVars == <<state, up, down, closing, owner>>

\* two browser clients negotiating one peer connection (SpecNeg, SpecGlare)
VARIABLES
  ownId,       \* side -> state.clientId of that client
  peerMeta,    \* side -> state.peerMeta.get(peerId) of its session for the other side
  pcs,         \* side -> the RTCPeerConnection of that session, as the engine keeps it
  signals,     \* side -> the signal messages relayed towards it, oldest first
  budget,      \* what the environment may still do: media changes, candidates, engine failures
  did,         \* what the last step did, for the properties that speak of one step
  hist         \* what has happened so far: rounds completed, rejected and accepted

negVars == <<ownId, peerMeta, pcs, signals, budget, did, hist>>

\* one connection's byte stream into the broker (SpecCodec)
VARIABLES
  wire,        \* the frame the peer wrote to the socket
  sent,        \* how many of its bytes the socket has delivered
  buffer,      \* client.buffer, as the bytes [lo, hi) of the wire
  decoded,     \* the messages parseFrames has returned so far
  calls        \* the 'data' events handled so far: how many messages each decoded

codecVars == <<wire, sent, buffer, decoded, calls>>

\* one page and the signaling sockets it opens over time (SpecReconnect)
VARIABLES
  page,        \* state.ws, state.roomId, state.wsAttempt, state.reconnectTimer
  sockets,     \* socket -> its readyState and whether its close event is still to come
  quota        \* what the user and the network may still do: clicks, failures

reconnectVars == <<page, sockets, quota>>

\* the variables the broker specification leaves alone
otherVars == <<roomVars, negVars, codecVars, reconnectVars>>

vars == <<clients, rooms, used, closed, ev, writes, joinedBy, view, otherVars>>

\* the part of the state the handlers read and write
Broker ==
  [clients |-> clients, rooms |-> rooms, writes |-> <<>>,
   idx |-> 0, raw |-> [type |-> "close"]]

\* ------------------------------------------------------------- helpers
RECURSIVE Without(_, _)
Without(s, x) ==
  IF s = <<>> THEN <<>>
  ELSE IF Head(s) = x THEN Without(Tail(s), x)
       ELSE <<Head(s)>> \o Without(Tail(s), x)

Elems(s) == {s[i] : i \in 1 .. Len(s)}

\* Set.prototype.add: append unless present
SetAdd(s, x) == IF x \in Elems(s) THEN s ELSE Append(s, x)

\* Map.prototype.delete
MapDelete(f, k) == [x \in (DOMAIN f) \ {k} |-> f[x]]

\* Map.prototype.set
MapSet(f, k, v) == [x \in (DOMAIN f) \cup {k} |-> IF x = k THEN v ELSE f[x]]

\* ------------------------------------------------------------- sending
sendMessage_prepend(b, clientId, payload) ==
  IF clientId \notin DOMAIN b.clients THEN b
  ELSE [b EXCEPT
          !.writes = <<[to |-> clientId, msg |-> payload, idx |-> b.idx, raw |-> b.raw]>> \o @]

sendMessage(b, clientId, payload) ==
  IF clientId \notin DOMAIN b.clients THEN b
  ELSE [b EXCEPT
          !.writes = Append(@, [to |-> clientId, msg |-> payload, idx |-> b.idx, raw |-> b.raw])]

RECURSIVE sendEach(_, _, _, _)
sendEach(b, members, senderId, payload) ==
  IF members = <<>> THEN b
  ELSE sendEach(IF Head(members) # senderId
                  THEN sendMessage(b, Head(members), payload)
                  ELSE b,
                Tail(members), senderId, payload)

broadcastToRoom(b, roomId, senderId, payload) ==
  IF roomId \notin DOMAIN b.rooms THEN b
  ELSE sendEach(b, b.rooms[roomId], senderId, payload)

\* ------------------------------------------------------------- 'data'
joinBranch(b, clientId, roomId) ==
  LET b1 == IF roomId \notin DOMAIN b.rooms
              THEN [b EXCEPT !.rooms = MapSet(@, roomId, <<>>)]
              ELSE b
      b2 == [b1 EXCEPT !.rooms[roomId] = SetAdd(@, clientId),
                       !.clients[clientId].roomId = roomId]
      b3 == sendMessage(b2, clientId,
              [type |-> "joined", clientId |-> clientId, peers |-> b2.rooms[roomId]])
  IN  broadcastToRoom(b3, roomId, clientId,
        [type |-> "peer-joined", clientId |-> clientId])

\* `message.type === 'signal' && client.roomId`: the parsed message itself is
\* the payload handed to sendMessage
signalBranch(b, clientId, message) ==
  IF Truthy(b.clients[clientId].roomId)
    THEN broadcastToRoom(b, b.clients[clientId].roomId, clientId, message)
    ELSE b

\* the body of the loop over the decoded messages
handleMessage(b, clientId, raw) ==
  IF raw.type = "garbage" THEN b
  ELSE IF raw.type = "join" THEN joinBranch(b, clientId, raw.roomId)
  ELSE IF raw.type = "signal" THEN signalBranch(b, clientId, raw)
  ELSE b

RECURSIVE processMessages_stopAtError(_, _, _)
processMessages_stopAtError(b, clientId, messages) ==
  IF messages = <<>> THEN b
  ELSE IF Head(messages).type = "garbage" THEN b
  ELSE processMessages_stopAtError(
         handleMessage([b EXCEPT !.idx = @ + 1, !.raw = Head(messages)], clientId, Head(messages)),
         clientId, Tail(messages))

RECURSIVE processMessages(_, _, _)
processMessages(b, clientId, messages) ==
  IF messages = <<>> THEN b
  ELSE processMessages(
         handleMessage([b EXCEPT !.idx = @ + 1, !.raw = Head(messages)], clientId, Head(messages)),
         clientId, Tail(messages))

dataHandler(b, clientId, messages) ==
  IF clientId \notin DOMAIN b.clients THEN b
  ELSE processMessages(b, clientId, messages)

\* ------------------------------------------------------------- 'close'
closeHandler_keepEmptyRoom(b, clientId) ==
  IF clientId \notin DOMAIN b.clients THEN b
  ELSE LET roomId == b.clients[clientId].roomId
           b1 == IF Truthy(roomId) /\ roomId \in DOMAIN b.rooms
                   THEN broadcastToRoom(
                          [b EXCEPT !.rooms[roomId] = Without(@, clientId)],
                          roomId, clientId,
                          [type |-> "peer-left", clientId |-> clientId])
                   ELSE b
       IN  [b1 EXCEPT !.clients = MapDelete(@, clientId)]

closeHandler_keepRegistered(b, clientId) ==
  IF clientId \notin DOMAIN b.clients THEN b
  ELSE LET roomId == b.clients[clientId].roomId
           b1 == IF Truthy(roomId) /\ roomId \in DOMAIN b.rooms
                   THEN broadcastToRoom(
                          [b EXCEPT !.rooms[roomId] = Without(@, clientId)],
                          roomId, clientId,
                          [type |-> "peer-left", clientId |-> clientId])
                   ELSE b
       IN  IF Truthy(roomId) /\ roomId \in DOMAIN b1.rooms /\ b1.rooms[roomId] = <<>>
             THEN [b1 EXCEPT !.rooms = MapDelete(@, roomId)]
             ELSE b1

closeHandler(b, clientId) ==
  IF clientId \notin DOMAIN b.clients THEN b
  ELSE LET roomId == b.clients[clientId].roomId
           b1 == IF Truthy(roomId) /\ roomId \in DOMAIN b.rooms
                   THEN broadcastToRoom(
                          [b EXCEPT !.rooms[roomId] = Without(@, clientId)],
                          roomId, clientId,
                          [type |-> "peer-left", clientId |-> clientId])
                   ELSE b
           b2 == IF Truthy(roomId) /\ roomId \in DOMAIN b1.rooms /\ b1.rooms[roomId] = <<>>
                   THEN [b1 EXCEPT !.rooms = MapDelete(@, roomId)]
                   ELSE b1
       IN  [b2 EXCEPT !.clients = MapDelete(@, clientId)]

\* ------------------------------------------------------- client's view
\* what the receiver of a frame makes of it (public/app.js, 'message'
\* listener): the peers of `joined`, plus the id of `peer-joined`, minus the id
\* of `peer-left`.  The receiver's own id, which app.js skips when it opens
\* peer connections, stays in the set.
ApplyFrame(v, msg) ==
  IF msg.type = "joined" THEN [has |-> TRUE, set |-> Elems(msg.peers)]
  ELSE IF msg.type = "peer-joined" THEN [v EXCEPT !.set = @ \cup {msg.clientId}]
  ELSE IF msg.type = "peer-left" THEN [v EXCEPT !.set = @ \ {msg.clientId}]
  ELSE v

RECURSIVE ApplyWrites(_, _, _)
ApplyWrites(v, c, ws) ==
  IF ws = <<>> THEN v
  ELSE ApplyWrites(IF Head(ws).to = c THEN ApplyFrame(v, Head(ws).msg) ELSE v, c, Tail(ws))

NoView == [has |-> FALSE, set |-> {}]

\* client.roomId of a connection, NoRoom when it is not in the registry
RoomOf(clientId) ==
  IF clientId \in DOMAIN clients THEN clients[clientId].roomId ELSE NoRoom

\* the room names of the join messages of a chunk, in order
RECURSIVE JoinsOf(_)
JoinsOf(messages) ==
  IF messages = <<>> THEN <<>>
  ELSE (IF Head(messages).type = "join" THEN <<Head(messages).roomId>> ELSE <<>>)
         \o JoinsOf(Tail(messages))

\* ------------------------------------------------------------- actions
\* no browser client is attached
RoomIdle ==
  /\ state = <<>>
  /\ up = <<>>
  /\ down = <<>>
  /\ closing = {}
  /\ owner = <<>>

\* no negotiation is modelled
NegIdle ==
  /\ ownId = <<>>
  /\ peerMeta = <<>>
  /\ pcs = <<>>
  /\ signals = <<>>
  /\ budget = <<>>
  /\ did = <<>>
  /\ hist = <<>>

\* no page is modelled
ReconnectIdle ==
  /\ page = <<>>
  /\ sockets = <<>>
  /\ quota = <<>>

\* no byte stream is modelled
CodecIdle ==
  /\ wire = <<>>
  /\ sent = 0
  /\ buffer = <<>>
  /\ decoded = <<>>
  /\ calls = <<>>

Init ==
  /\ clients = <<>>
  /\ rooms = <<>>
  /\ used = {}
  /\ closed = {}
  /\ ev = [kind |-> "init", conn |-> 0, joins |-> <<>>, had |-> NoRoom, dead |-> FALSE]
  /\ writes = <<>>
  /\ joinedBy = [c \in Ids |-> {}]
  /\ view = [c \in Ids |-> NoView]
  /\ RoomIdle
  /\ NegIdle
  /\ CodecIdle
  /\ ReconnectIdle

Commit(b) ==
  /\ clients' = b.clients
  /\ rooms' = b.rooms
  /\ writes' = b.writes
  /\ view' = [c \in Ids |-> IF c \in DOMAIN b.clients
                               THEN ApplyWrites(view[c], c, b.writes)
                               ELSE NoView]

\* server.on('upgrade'): a request that is not a websocket upgrade or has no
\* key is destroyed; otherwise the connection is registered under a fresh id
Upgrade(isWebsocket, hasKey) ==
  /\ ev' = [kind |-> "upgrade", conn |-> 0, joins |-> <<>>, had |-> NoRoom, dead |-> FALSE]
  /\ IF isWebsocket /\ hasKey
       THEN \E clientId \in {i \in Ids \ used : \A j \in Ids \ used : i <= j} :
              /\ used' = used \cup {clientId}
              /\ clients' = MapSet(clients, clientId, [roomId |-> NoRoom])
       ELSE UNCHANGED <<used, clients>>
  /\ writes' = <<>>
  /\ UNCHANGED <<rooms, closed, joinedBy, view, otherVars>>

\* socket.on('data')
Data(clientId, messages) ==
  /\ clientId \in used
  /\ \E b \in {dataHandler(Broker, clientId, messages)} : Commit(b)
  /\ ev' = [kind |-> "data", conn |-> clientId,
            joins |-> IF clientId \in DOMAIN clients THEN JoinsOf(messages) ELSE <<>>,
            had |-> NoRoom, dead |-> clientId \in closed]
  /\ joinedBy' =
       IF clientId \in DOMAIN clients
         THEN [joinedBy EXCEPT ![clientId] =
                 @ \cup Elems(JoinsOf(messages))]
         ELSE joinedBy
  /\ UNCHANGED <<used, closed, otherVars>>

\* socket.on('close')
Close(clientId) ==
  /\ clientId \in used
  /\ \E b \in {closeHandler(Broker, clientId)} : Commit(b)
  /\ ev' = [kind |-> "close", conn |-> clientId, joins |-> <<>>,
            had |-> RoomOf(clientId), dead |-> clientId \in closed]
  /\ closed' = closed \cup {clientId}
  /\ joinedBy' = [joinedBy EXCEPT ![clientId] = {}]
  /\ UNCHANGED <<used, otherVars>>

Next ==
  \/ \E isWebsocket \in BOOLEAN, hasKey \in BOOLEAN : Upgrade(isWebsocket, hasKey)
  \/ \E clientId \in Ids, messages \in Singles : Data(clientId, messages)
  \/ \E clientId \in Ids, messages \in Bursts : Data(clientId, messages)
  \/ \E clientId \in Ids : Close(clientId)

Spec == Init /\ [][Next]_vars

\* ------------------------------------------------------------- observation
\* the ids in the member set of room r of a room table
MembersIn(table, r) == IF r \in DOMAIN table THEN Elems(table[r]) ELSE {}

Members(r) == MembersIn(rooms, r)

Recipients(ws) == {ws[k].to : k \in 1 .. Len(ws)}

NoDup(s) == Cardinality(Elems(s)) = Len(s)

FramesOfType(ws, t) == SelectSeq(ws, LAMBDA w : w.msg.type = t)

\* the frames the i-th message of the chunk caused
FramesCausedBy(ws, i) == SelectSeq(ws, LAMBDA w : w.idx = i)

\* the room of connection S when the i-th message of its chunk is handled
RoomAt(S, ms, i) ==
  LET js == {j \in 1 .. (i - 1) : ms[j].type = "join"} IN
  IF js = {} THEN RoomOf(S)
  ELSE ms[CHOOSE j \in js : \A h \in js : h <= j].roomId

TypeOK ==
  /\ DOMAIN clients \subseteq used
  /\ closed \subseteq used
  /\ DOMAIN rooms \subseteq RoomNames
  /\ \A r \in DOMAIN rooms : Elems(rooms[r]) \subseteq used /\ NoDup(rooms[r])
  /\ \A c \in DOMAIN clients : clients[c].roomId \in RoomNames \cup {NoRoom}

\* ------------------------------------------------------------- claims

\* C1: every join(C, R) is answered by exactly one `joined` frame, written to C
\* alone, carrying C's id and as peers exactly the member set of R with C in
\* it (so C itself and every connection that joined R earlier); the frames
\* that follow it for the same message are one `peer-joined{C}` to each other
\* member of R, and nothing else; no other event produces `joined` or
\* `peer-joined`.
C1_JoinReply ==
  LET joined == FramesOfType(writes, "joined")
      C == ev.conn
  IN
  /\ Len(joined) = Len(ev.joins)
  /\ \A k \in 1 .. Len(joined) :
       LET w == joined[k]
           R == ev.joins[k]
           caused == FramesCausedBy(writes, w.idx)
           others == Tail(caused)
       IN
       /\ w.to = C
       /\ w.msg.clientId = C
       /\ w.raw = JoinMsg(R)
       /\ Head(caused) = w
       /\ NoDup(w.msg.peers)
       /\ Elems(w.msg.peers) = Members(R)
       /\ C \in Elems(w.msg.peers)
       /\ {d \in DOMAIN clients : R \in joinedBy[d]} \subseteq Elems(w.msg.peers)
       /\ \A j \in 1 .. Len(others) :
            others[j].msg = [type |-> "peer-joined", clientId |-> C]
       /\ NoDup(others)
       /\ Recipients(others) = Members(R) \ {C}
  /\ \A k \in 1 .. Len(writes) :
       writes[k].msg.type = "peer-joined" =>
         \E j \in 1 .. Len(joined) : joined[j].idx = writes[k].idx

\* C2: every signal handled for a connection S that has joined a room is
\* written, unchanged, to every other member of S's room and never to S,
\* whatever its `to` field.
C2_SignalFanOut ==
  [][\A S \in DOMAIN clients, ms \in Chunks :
       Data(S, ms) =>
         \A i \in 1 .. Len(ms) :
           (ms[i].type = "signal" /\ RoomAt(S, ms, i) # NoRoom) =>
             LET fr == FramesCausedBy(writes', i) IN
             /\ \A k \in 1 .. Len(fr) : fr[k].msg = ms[i] /\ fr[k].to # S
             /\ Recipients(fr) =
                  (MembersIn(rooms', RoomAt(S, ms, i)) \ {S}) \cap DOMAIN clients'
    ]_vars

\* C3: a signal sent by S is written only to connections whose current room
\* is S's current room.
C3_RoomIsolation ==
  [][\A S \in DOMAIN clients, ms \in Chunks :
       Data(S, ms) =>
         \A k \in 1 .. Len(writes') :
           writes'[k].msg.type = "signal" =>
             clients'[writes'[k].to].roomId = RoomAt(S, ms, writes'[k].idx)
    ]_vars

\* C4: every connection id is in the member set of at most one room, and then
\* that room is the one in the connection's roomId field.
C4_OneRoom ==
  \A c \in Ids :
    /\ Cardinality({r \in DOMAIN rooms : c \in Members(r)}) <= 1
    /\ \A r \in DOMAIN rooms :
         c \in Members(r) => (c \in DOMAIN clients /\ clients[c].roomId = r)

\* C5: the disconnect of C removes C from the registry and from the member
\* set of every room it had joined, writes `peer-left{C}` to the remaining
\* members of those rooms and to nobody else, and leaves no such room empty
\* in the table.
C5_Disconnect ==
  [][(ev'.kind = "close" /\ ev'.conn \in DOMAIN clients) =>
       LET C == ev'.conn
           Rs == joinedBy[C]
       IN
       /\ C \notin DOMAIN clients'
       /\ \A R \in Rs : C \notin MembersIn(rooms', R)
       /\ \A k \in 1 .. Len(writes') :
            writes'[k].msg = [type |-> "peer-left", clientId |-> C]
       /\ Recipients(writes') = (UNION {MembersIn(rooms', R) : R \in Rs}) \cap DOMAIN clients'
       /\ \A R \in Rs : R \in DOMAIN rooms' => rooms'[R] # <<>>
    ]_vars

\* C6: a close or data event for a connection that has already been
\* disconnected writes no frame and changes neither the room table nor the
\* registry.
C6_CleanupOnce ==
  [][(ev'.kind \in {"close", "data"} /\ ev'.conn \in closed) =>
       /\ writes' = <<>>
       /\ rooms' = rooms
       /\ clients' = clients
    ]_vars

\* a connection was closed a second time while a room still had a member
\* with a socket, which a repeated cleanup would notify
C6_Witness ==
  /\ ev.kind = "close" /\ ev.dead
  /\ \E r \in DOMAIN rooms : Members(r) \cap DOMAIN clients # {}

\* C7: after every handler each room of the table has at least one member; a
\* room enters the table only in a join that makes the joiner its first
\* member, and leaves it only in the disconnect of its last member.
C7_NoEmptyRoom ==
  [][/\ \A r \in DOMAIN rooms' : rooms'[r] # <<>>
     /\ \A r \in (DOMAIN rooms') \ (DOMAIN rooms) :
          /\ ev'.kind = "data"
          /\ r \in Elems(ev'.joins)
          /\ rooms'[r] = <<ev'.conn>>
     /\ \A r \in (DOMAIN rooms) \ (DOMAIN rooms') :
          /\ ev'.kind = "close"
          /\ rooms[r] = <<ev'.conn>>
    ]_vars

\* the last member of room "R" disconnected and the room left the table
C7_Witness ==
  /\ ev.kind = "close" /\ ~ev.dead /\ ev.had = "R"
  /\ "R" \notin DOMAIN rooms

\* C8: when no connection that joined R is still open, the next join to R by
\* C is answered with peers = [C].
C8_FreshRoom ==
  [][(ev'.kind = "data" /\ ev'.conn \in DOMAIN clients) =>
       LET joined == FramesOfType(writes', "joined") IN
       \A k \in 1 .. Len(joined) :
         k <= Len(ev'.joins) =>
           LET R == ev'.joins[k] IN
           ( /\ \A x \in Ids : R \notin joinedBy[x]
             /\ \A j \in 1 .. (k - 1) : ev'.joins[j] # R )
             => joined[k].msg.peers = <<ev'.conn>>
    ]_vars

\* C9: for every open connection M that was sent `joined`, the peers of that
\* frame plus the ids of the later `peer-joined` frames minus the ids of the
\* later `peer-left` frames sent to M are the open connections whose room is
\* M's room.
C9_ViewIsCurrent ==
  \A M \in DOMAIN clients :
    view[M].has =>
      view[M].set = {c \in DOMAIN clients : clients[c].roomId = clients[M].roomId}

\* C10: the frames a handler writes to one socket are written in the order of
\* the messages that caused them (handlers run one at a time, so this is the
\* order in which the broker accepted the events).
C10_Fifo ==
  \A j, k \in 1 .. Len(writes) :
    (j < k /\ writes[j].to = writes[k].to) => writes[j].idx < writes[k].idx

\* connection 1 sent two signals in one chunk to a room with two other
\* members: each of them was written the first signal, then the second
C10_Witness ==
  /\ ev.kind = "data" /\ ev.conn = 1
  /\ Len(writes) = 4
  /\ \A k \in 1 .. 4 : writes[k].msg.type = "signal"
  /\ Recipients(writes) = {2, 3}
  /\ {writes[k].idx : k \in 1 .. 4} = {1, 2}

\* the i-th message of a chunk of S is a protocol error: text that is not JSON,
\* or a signal while S has joined no room
IsProtocolError(S, ms, i) ==
  \/ ms[i].type = "garbage"
  \/ ms[i].type = "signal" /\ RoomAt(S, ms, i) = NoRoom

\* the chunk with its protocol errors taken out
WithoutErrors(S, ms) ==
  LET keep[i \in 0 .. Len(ms)] ==
        IF i = 0 THEN <<>>
        ELSE IF IsProtocolError(S, ms, i) THEN keep[i - 1]
        ELSE Append(keep[i - 1], ms[i])
  IN  keep[Len(ms)]

\* the frames of a write log without the position of the message that caused them
Frames(ws) == [k \in 1 .. Len(ws) |-> [to |-> ws[k].to, msg |-> ws[k].msg]]

\* C11: in every state the broker reaches, for every registered connection S
\* and every chunk: a message that is not JSON, or a signal while S has joined
\* no room, causes no frame, and the data handler leaves the registry, the
\* room table and the frames written exactly as it does for the same chunk
\* without that message: the sender stays registered and the messages after
\* the error are handled; a chunk of errors only changes nothing.
C11_ProtocolErrors ==
  \A S \in DOMAIN clients, ms \in Chunks :
    LET done == dataHandler(Broker, S, ms)
        good == dataHandler(Broker, S, WithoutErrors(S, ms))
    IN
    /\ S \in DOMAIN done.clients
    /\ \A i \in 1 .. Len(ms) :
         IsProtocolError(S, ms, i) => FramesCausedBy(done.writes, i) = <<>>
    /\ done.clients = good.clients
    /\ done.rooms = good.rooms
    /\ Frames(done.writes) = Frames(good.writes)
    /\ (\A i \in 1 .. Len(ms) : IsProtocolError(S, ms, i)) =>
         (done.clients = clients /\ done.rooms = rooms /\ done.writes = <<>>)

\* a chunk held text that is not JSON followed by join{"R"}: the join, second
\* in the chunk, was answered
C11_Witness ==
  /\ ev.kind = "data" /\ ev.joins = <<"R">>
  /\ Len(writes) >= 1
  /\ writes[1].idx = 2
  /\ writes[1].msg.type = "joined"
  /\ ev.conn \in DOMAIN clients

\* ======================================================================
\* Browser clients (public/app.js) attached to the broker: each tab keeps
\* the `state` object, opens signaling sockets, and handles the frames the
\* broker writes to its current socket.  The broker side is the handlers
\* above, run on one decoded message at a time.
\* ======================================================================
MaxId == 3        \* connections the broker accepts in one run
MaxQueue == 2     \* frames of the broker waiting at one client socket
MaxUp == 1        \* messages of one client waiting at the broker

Tabs == {"P", "Q"}
ConnIds == 1 .. MaxId

\* room names a user can enter: joinBtn rejects the empty name
TabRooms == {"R", "S"}

\* state.ws: null, state.clientId: null
NoWs == 0
NoClientId == 0

\* signal{from, to} as sendSignal builds it
RoomSignal(from, to) == [type |-> "signal", from |-> from, to |-> to]

\* createPeerConnection: a session is created once per peer id, its role is
\* computed from the client's id at that moment
createPeerConnection(st, peerId) ==
  IF peerId \in DOMAIN st.peers THEN st
  ELSE [st EXCEPT !.peers =
          MapSet(@, peerId,
                 [polite |-> IF st.clientId # NoClientId
                               THEN st.clientId > peerId ELSE FALSE])]

removePeer(st, peerId) == [st EXCEPT !.peers = MapDelete(@, peerId)]

\* for (const peerId of message.peers) if (peerId !== state.clientId) ...
RECURSIVE createEach(_, _)
createEach(st, peers) ==
  IF peers = <<>> THEN st
  ELSE createEach(IF Head(peers) # st.clientId
                    THEN createPeerConnection(st, Head(peers))
                    ELSE st,
                  Tail(peers))

\* the part of handleSignal that touches state.peers
handleSignal(st, peerId) ==
  IF peerId \notin DOMAIN st.peers THEN createPeerConnection(st, peerId) ELSE st

\* socket.addEventListener('message', ...)
onMessage(st, message) ==
  IF message.type = "joined"
    THEN createEach([st EXCEPT !.clientId = message.clientId], message.peers)
  ELSE IF message.type = "peer-joined"
    THEN IF message.clientId # st.clientId
           THEN createPeerConnection(st, message.clientId)
           ELSE st
  ELSE IF message.type = "peer-left"
    THEN removePeer(st, message.clientId)
  ELSE IF message.type = "signal"
    THEN IF message.to # NoTo /\ message.to # st.clientId
           THEN st
           ELSE handleSignal(st, message.from)
  ELSE st

\* a socket of a tab is open: it is the tab's current one and nobody closed it
IsOpen(t, c) == c # NoWs /\ state[t].ws = c /\ c \notin closing /\ c \in DOMAIN clients

\* the frames of a handler reach the sockets that are still open at the client
RECURSIVE Dispatch(_, _)
Dispatch(queues, ws) ==
  IF ws = <<>> THEN queues
  ELSE LET to == Head(ws).to IN
       Dispatch(IF IsOpen(owner[to], to)
                  THEN [queues EXCEPT ![to] = Append(@, Head(ws).msg)]
                  ELSE queues,
                Tail(ws))

InitRoom ==
  /\ clients = <<>>
  /\ rooms = <<>>
  /\ used = {}
  /\ closed = {}
  /\ ev = [kind |-> "init", conn |-> 0, joins |-> <<>>, had |-> NoRoom, dead |-> FALSE]
  /\ writes = <<>>
  /\ joinedBy = [c \in Ids |-> {}]
  /\ view = [c \in Ids |-> NoView]
  /\ state = [t \in Tabs |->
                [ws |-> NoWs, roomId |-> NoRoom, clientId |-> NoClientId, peers |-> <<>>]]
  /\ up = [c \in ConnIds |-> <<>>]
  /\ down = [c \in ConnIds |-> <<>>]
  /\ closing = {}
  /\ owner = <<>>
  /\ NegIdle
  /\ CodecIdle
  /\ ReconnectIdle

roomRest == <<closed, ev, writes, joinedBy, view, negVars, codecVars, reconnectVars>>

\* connectWebSocket: close the current socket, open a new one; the broker
\* registers it under a fresh id and the 'open' listener sends join
connectWebSocket(t, roomId, c) ==
  LET old == state[t].ws IN
  /\ c \in ConnIds \ used
  /\ closing' = IF old # NoWs /\ old \in DOMAIN clients THEN closing \cup {old} ELSE closing
  /\ used' = used \cup {c}
  /\ clients' = MapSet(clients, c, [roomId |-> NoRoom])
  /\ owner' = MapSet(owner, c, t)
  /\ state' = [state EXCEPT ![t].ws = c, ![t].roomId = roomId]
  /\ up' = [up EXCEPT ![c] = <<JoinMsg(roomId)>>]
  /\ down' = IF old # NoWs THEN [down EXCEPT ![old] = <<>>] ELSE down
  /\ UNCHANGED <<rooms, roomRest>>

\* joinBtn click
JoinClick(t, roomId, c) ==
  /\ Truthy(roomId)
  /\ connectWebSocket(t, roomId, c)

\* reconnectBtn click, or the reconnect timer firing
ReconnectClick(t, c) ==
  /\ state[t].roomId # NoRoom
  /\ connectWebSocket(t, state[t].roomId, c)

\* the connection of a tab is lost
SocketLost(t) ==
  /\ IsOpen(t, state[t].ws)
  /\ closing' = closing \cup {state[t].ws}
  /\ down' = [down EXCEPT ![state[t].ws] = <<>>]
  /\ UNCHANGED <<clients, rooms, used, state, up, owner, roomRest>>

\* sendSignal(peerId, data) for a session the tab holds
SendSignal(t, peerId) ==
  /\ IsOpen(t, state[t].ws)
  /\ peerId \in DOMAIN state[t].peers
  /\ Len(up[state[t].ws]) < MaxUp
  /\ up' = [up EXCEPT ![state[t].ws] = Append(@, RoomSignal(state[t].clientId, peerId))]
  /\ UNCHANGED <<clients, rooms, used, state, down, closing, owner, roomRest>>

\* the broker's 'data' handler on the next message of connection c
ServerData(c) ==
  /\ c \in DOMAIN clients
  /\ up[c] # <<>>
  /\ LET b == dataHandler(Broker, c, <<Head(up[c])>>)
         queues == Dispatch(down, b.writes)
     IN
     /\ \A d \in ConnIds : Len(queues[d]) <= MaxQueue
     /\ clients' = b.clients
     /\ rooms' = b.rooms
     /\ down' = queues
  /\ up' = [up EXCEPT ![c] = Tail(@)]
  /\ UNCHANGED <<used, state, closing, owner, roomRest>>

\* the broker's 'close' handler, after the data the client sent before closing
ServerClose(c) ==
  /\ c \in closing
  /\ up[c] = <<>>
  /\ LET b == closeHandler(Broker, c)
         queues == Dispatch(down, b.writes)
     IN
     /\ \A d \in ConnIds : Len(queues[d]) <= MaxQueue
     /\ clients' = b.clients
     /\ rooms' = b.rooms
     /\ down' = queues
  /\ closing' = closing \ {c}
  /\ UNCHANGED <<used, state, up, owner, roomRest>>

\* the 'message' listener of the tab's open socket on the next frame
ClientMessage(t) ==
  /\ IsOpen(t, state[t].ws)
  /\ down[state[t].ws] # <<>>
  /\ state' = [state EXCEPT ![t] = onMessage(@, Head(down[state[t].ws]))]
  /\ down' = [down EXCEPT ![state[t].ws] = Tail(@)]
  /\ UNCHANGED <<clients, rooms, used, up, closing, owner, roomRest>>

NextRoom ==
  \/ \E t \in Tabs, c \in ConnIds : ReconnectClick(t, c)
  \/ \E t \in Tabs, roomId \in TabRooms, c \in ConnIds : JoinClick(t, roomId, c)
  \/ \E t \in Tabs : SocketLost(t)
  \/ \E t \in Tabs, peerId \in ConnIds : SendSignal(t, peerId)
  \/ \E c \in ConnIds : ServerData(c)
  \/ \E c \in ConnIds : ServerClose(c)
  \/ \E t \in Tabs : ClientMessage(t)

SpecRoom == InitRoom /\ [][NextRoom]_vars

TypeOKRoom ==
  /\ \A t \in Tabs :
       /\ state[t].ws \in ConnIds \cup {NoWs}
       /\ state[t].clientId \in ConnIds \cup {NoClientId}
       /\ DOMAIN state[t].peers \subseteq ConnIds
  /\ closing \subseteq DOMAIN clients
  /\ \A c \in ConnIds : Len(up[c]) <= MaxUp /\ Len(down[c]) <= MaxQueue

\* C12: whenever two tabs each hold a session for the other's current id,
\* exactly one of the two sessions is polite, the one of the tab with the
\* larger id.
C12_Roles ==
  \A P \in Tabs : \A Q \in Tabs \ {P} :
    LET p == state[P].clientId
        q == state[Q].clientId
    IN
    (p # NoClientId /\ q # NoClientId
       /\ q \in DOMAIN state[P].peers /\ p \in DOMAIN state[Q].peers) =>
      /\ state[P].peers[q].polite # state[Q].peers[p].polite
      /\ state[P].peers[q].polite <=> (p > q)

\* every connection the clients closed has been cleaned up by the broker and
\* no message is waiting anywhere
Settled ==
  /\ closing = {}
  /\ \A c \in ConnIds : up[c] = <<>> /\ down[c] = <<>>

\* C20: once connection X has closed and every message sent because of it has
\* been handled, no other tab whose own socket is open holds a session keyed
\* by X's id.
C20_SessionsCancelled ==
  Settled =>
    \A X \in used \ DOMAIN clients :
      \A t \in Tabs \ {owner[X]} :
        IsOpen(t, state[t].ws) => X \notin DOMAIN state[t].peers

\* ---------------------------------------------------------------------------
\* Negotiation of one peer connection between two clients
\* (src/public/app.js 122-208 and 294-324).  Each side holds one session for
\* the other; the RTCPeerConnection is the browser's, modelled by the
\* operations chain and the signaling state machine of the WebRTC
\* recommendation; signals travel through the broker, which relays them in
\* order.
\* ---------------------------------------------------------------------------

MaxOps == 3        \* engine operations one connection may have queued
MaxSignals == 3    \* signals in flight towards one client
MaxRounds == 2     \* offers one connection may create
MaxMedia == 1      \* local media changes in one run
MaxIce == 2        \* ICE candidates gathered in one run
MaxFail == 1       \* engine calls that fail in one run

Sides == {1, 2}

Other(s) == 3 - s

\* a negotiation round is named after the offer that opened it
NoRound == [by |-> 0, n |-> 0]

NoSdp == [type |-> "none", round |-> NoRound]

Offer(r) == [type |-> "offer", round |-> r]

Answer(r) == [type |-> "answer", round |-> r]

\* { type: 'offer' | 'answer', sdp } and { type: 'ice', candidate }
Signal(kind, sdp) == [kind |-> kind, sdp |-> sdp]

Op(op, by, sdp) == [op |-> op, by |-> by, sdp |-> sdp]

Pending(pc, op) == {i \in DOMAIN pc.ops : pc.ops[i].op = op}

\* state.peerMeta.set(peerId, {...}) of createPeerConnection
newMeta(own, peerId) ==
  [polite |-> createPeerConnection([clientId |-> own, peers |-> <<>>], peerId).peers[peerId].polite,
   makingOffer |-> FALSE,
   ignoreOffer |-> FALSE,
   isSettingRemoteAnswerPending |-> FALSE]

\* new RTCPeerConnection; createDataChannel when isInitiator
newPc(isInitiator) ==
  [signalingState |-> "stable", ops |-> <<>>, needed |-> isInitiator,
   local |-> NoSdp, remote |-> NoRound, made |-> 0]

\* the engine runs the operation at the head of the chain of connection pc of
\* side s; ok says whether a call that can fail for reasons of its own does
Execute(s, pc, ok) ==
  LET o == Head(pc.ops)
      rest == [pc EXCEPT !.ops = Tail(@)]
      failed == [pc |-> rest, ok |-> FALSE, done |-> NoRound, installed |-> NoRound]
      fine(q) == [pc |-> q, ok |-> TRUE, done |-> NoRound, installed |-> NoRound]
  IN CASE o.op = "setLocalDescription" ->
            IF ~ok THEN failed
            ELSE IF pc.signalingState = "have-remote-offer"
              THEN fine([rest EXCEPT !.signalingState = "stable",
                                     !.local = Answer(pc.remote),
                                     !.needed = FALSE])
              ELSE fine([rest EXCEPT !.signalingState = "have-local-offer",
                                     !.made = @ + 1,
                                     !.local = Offer([by |-> s, n |-> pc.made + 1])])
       [] o.op = "setRemoteDescription" /\ o.sdp.type = "offer" ->
            [fine([rest EXCEPT !.signalingState = "have-remote-offer",
                               !.remote = o.sdp.round,
                               !.local = IF pc.signalingState = "have-local-offer"
                                           THEN NoSdp ELSE @])
               EXCEPT !.installed = o.sdp.round]
       [] o.op = "setRemoteDescription" /\ o.sdp.type # "offer" ->
            IF /\ pc.signalingState = "have-local-offer"
               /\ o.sdp.type = "answer"
               /\ o.sdp.round = pc.local.round
              THEN [fine([rest EXCEPT !.signalingState = "stable", !.needed = FALSE])
                      EXCEPT !.done = o.sdp.round]
              ELSE failed
       [] o.op = "createAnswer" ->
            IF pc.signalingState = "have-remote-offer" THEN fine(rest) ELSE failed
       [] o.op = "setLocalDescription(answer)" ->
            IF pc.signalingState = "have-remote-offer"
              THEN fine([rest EXCEPT !.signalingState = "stable",
                                     !.local = o.sdp,
                                     !.needed = FALSE])
              ELSE failed

\* as Resume, with makingOffer cleared after the send instead of in a finally
\* block, so not when the call rejects
Resume_noFinally(meta, o, r) ==
  LET pc == r.pc
      stop == [meta |-> meta, pc |-> pc, send |-> <<>>]
  IN CASE o.by = "negotiationneeded" ->
            [meta |-> [meta EXCEPT !.makingOffer = ~r.ok],
             pc |-> pc,
             send |-> IF r.ok THEN <<Signal("offer", pc.local)>> ELSE <<>>]
       [] o.by = "renegotiatePeers" ->
            [stop EXCEPT !.send = IF r.ok THEN <<Signal("offer", pc.local)>> ELSE <<>>]
       [] o.by = "handleSignal" /\ o.op = "setRemoteDescription" ->
            IF r.ok
              THEN [stop EXCEPT !.pc.ops = Append(@, Op("createAnswer", "handleSignal", NoSdp))]
              ELSE stop
       [] o.by = "handleSignal" /\ o.op = "createAnswer" ->
            IF r.ok
              THEN [stop EXCEPT !.pc.ops =
                      Append(@, Op("setLocalDescription(answer)", "handleSignal", Answer(pc.remote)))]
              ELSE stop
       [] o.by = "handleSignal" /\ o.op = "setLocalDescription(answer)" ->
            IF r.ok
              THEN [meta |-> [meta EXCEPT !.isSettingRemoteAnswerPending = FALSE],
                    pc |-> pc,
                    send |-> <<Signal("answer", pc.local)>>]
              ELSE stop
       [] o.by = "handleSignal answer" -> stop

\* what the code awaiting the operation o does when it settles: the code up
\* to its next await.  r is Execute's result
Resume(meta, o, r) ==
  LET pc == r.pc
      stop == [meta |-> meta, pc |-> pc, send |-> <<>>]
  IN CASE o.by = "negotiationneeded" ->
            [meta |-> [meta EXCEPT !.makingOffer = FALSE],
             pc |-> pc,
             send |-> IF r.ok THEN <<Signal("offer", pc.local)>> ELSE <<>>]
       [] o.by = "renegotiatePeers" ->
            [stop EXCEPT !.send = IF r.ok THEN <<Signal("offer", pc.local)>> ELSE <<>>]
       [] o.by = "handleSignal" /\ o.op = "setRemoteDescription" ->
            IF r.ok
              THEN [stop EXCEPT !.pc.ops = Append(@, Op("createAnswer", "handleSignal", NoSdp))]
              ELSE stop
       [] o.by = "handleSignal" /\ o.op = "createAnswer" ->
            IF r.ok
              THEN [stop EXCEPT !.pc.ops =
                      Append(@, Op("setLocalDescription(answer)", "handleSignal", Answer(pc.remote)))]
              ELSE stop
       [] o.by = "handleSignal" /\ o.op = "setLocalDescription(answer)" ->
            IF r.ok
              THEN [meta |-> [meta EXCEPT !.isSettingRemoteAnswerPending = FALSE],
                    pc |-> pc,
                    send |-> <<Signal("answer", pc.local)>>]
              ELSE stop
       [] o.by = "handleSignal answer" -> stop

Did(s, what, by, ok, round) ==
  [side |-> s, what |-> what, by |-> by, ok |-> ok, round |-> round]

\* both clients joined the room and hold a session for each other; who came
\* first, and so which identifier is the greater, is open
NegStart(media, ice, fail) ==
  /\ ownId \in {<<1, 2>>, <<2, 1>>}
  /\ peerMeta = [s \in Sides |-> newMeta(ownId[s], ownId[Other(s)])]
  /\ pcs = [s \in Sides |-> newPc(TRUE)]
  /\ signals = [s \in Sides |-> <<>>]
  /\ budget = [media |-> media, ice |-> ice, fail |-> fail]
  /\ did = Did(0, "start", "", TRUE, NoRound)
  /\ hist = [done |-> {}, rejected |-> [s \in Sides |-> {}], accepted |-> [s \in Sides |-> {}],
             failed |-> {}]
  /\ clients = <<>>
  /\ rooms = <<>>
  /\ used = {}
  /\ closed = {}
  /\ ev = [kind |-> "init", conn |-> 0, room |-> NoRoom, members |-> {}, msgs |-> <<>>,
           joins |-> <<>>]
  /\ writes = <<>>
  /\ joinedBy = [c \in Ids |-> {}]
  /\ view = [c \in Ids |-> NoView]
  /\ RoomIdle
  /\ CodecIdle
  /\ ReconnectIdle

InitNeg == NegStart(MaxMedia, MaxIce, MaxFail)

negRest == <<clients, rooms, used, closed, ev, writes, joinedBy, view, roomVars, codecVars,
            reconnectVars, ownId>>

\* the engine may start one more production of a local offer
MayOffer(pc) ==
  /\ Len(pc.ops) < MaxOps
  /\ pc.made + Cardinality(Pending(pc, "setLocalDescription")) < MaxRounds

\* pc.addEventListener('negotiationneeded', ...): the event and the handler up
\* to its await.  The engine fires the event when the connection needs
\* negotiation, is stable and has an empty operations chain; the event is
\* also let in while makingOffer is set, the case the handler tests for
NegotiationNeeded(s) ==
  /\ pcs[s].needed
  /\ pcs[s].signalingState = "stable"
  /\ pcs[s].ops = <<>> \/ peerMeta[s].makingOffer
  /\ IF peerMeta[s].makingOffer
       THEN /\ did' = Did(s, "negotiationneeded ignored", "", TRUE, NoRound)
            /\ UNCHANGED <<peerMeta, pcs>>
       ELSE /\ MayOffer(pcs[s])
            /\ peerMeta' = [peerMeta EXCEPT ![s].makingOffer = TRUE]
            /\ pcs' = [pcs EXCEPT ![s].ops =
                         Append(@, Op("setLocalDescription", "negotiationneeded", NoSdp))]
            /\ did' = Did(s, "negotiationneeded", "", TRUE, NoRound)
  /\ UNCHANGED <<signals, budget, hist, negRest>>

\* startLocalMedia once getUserMedia has resolved: addTrack on the
\* connection, then renegotiatePeers up to its await
startLocalMedia(s) ==
  /\ budget.media > 0
  /\ budget' = [budget EXCEPT !.media = @ - 1]
  /\ IF pcs[s].signalingState = "stable"
       THEN /\ MayOffer(pcs[s])
            /\ pcs' = [pcs EXCEPT ![s].needed = TRUE,
                                  ![s].ops = Append(@, Op("setLocalDescription", "renegotiatePeers", NoSdp))]
       ELSE pcs' = [pcs EXCEPT ![s].needed = TRUE]
  /\ did' = Did(s, "startLocalMedia", "", TRUE, NoRound)
  /\ UNCHANGED <<peerMeta, signals, hist, negRest>>

\* as handleOffer, with the roles the wrong way round: the polite side ignores
handleOffer_politeIgnores(s, sdp) ==
  LET meta == peerMeta[s]
      offerCollision == meta.makingOffer \/ pcs[s].signalingState # "stable"
      ignoreOffer == meta.polite /\ offerCollision
  IN IF ignoreOffer
       THEN /\ peerMeta' = [peerMeta EXCEPT ![s].ignoreOffer = TRUE]
            /\ hist' = [hist EXCEPT !.rejected[s] = @ \cup {sdp.round}]
            /\ did' = Did(s, "offer ignored", "", TRUE, sdp.round)
            /\ UNCHANGED pcs
       ELSE /\ Len(pcs[s].ops) < MaxOps
            /\ peerMeta' = [peerMeta EXCEPT ![s].ignoreOffer = FALSE,
                                            ![s].isSettingRemoteAnswerPending = TRUE]
            /\ pcs' = [pcs EXCEPT ![s].ops = Append(@, Op("setRemoteDescription", "handleSignal", sdp))]
            /\ did' = Did(s, "offer taken", "", TRUE, sdp.round)
            /\ UNCHANGED hist

\* handleSignal, data.type === 'offer', up to its first await
handleOffer(s, sdp) ==
  LET meta == peerMeta[s]
      offerCollision == meta.makingOffer \/ pcs[s].signalingState # "stable"
      ignoreOffer == ~meta.polite /\ offerCollision
  IN IF ignoreOffer
       THEN /\ peerMeta' = [peerMeta EXCEPT ![s].ignoreOffer = TRUE]
            /\ hist' = [hist EXCEPT !.rejected[s] = @ \cup {sdp.round}]
            /\ did' = Did(s, "offer ignored", "", TRUE, sdp.round)
            /\ UNCHANGED pcs
       ELSE /\ Len(pcs[s].ops) < MaxOps
            /\ peerMeta' = [peerMeta EXCEPT ![s].ignoreOffer = FALSE,
                                            ![s].isSettingRemoteAnswerPending = TRUE]
            /\ pcs' = [pcs EXCEPT ![s].ops = Append(@, Op("setRemoteDescription", "handleSignal", sdp))]
            /\ did' = Did(s, "offer taken", "", TRUE, sdp.round)
            /\ UNCHANGED hist

\* handleSignal, data.type === 'answer', up to its await
handleAnswer(s, sdp) ==
  /\ Len(pcs[s].ops) < MaxOps
  /\ peerMeta' = [peerMeta EXCEPT ![s].isSettingRemoteAnswerPending = FALSE]
  /\ pcs' = [pcs EXCEPT ![s].ops = Append(@, Op("setRemoteDescription", "handleSignal answer", sdp))]
  /\ did' = Did(s, "answer taken", "", TRUE, sdp.round)
  /\ UNCHANGED hist

\* handleSignal, data.type === 'ice'
handleIce(s, sdp) ==
  /\ did' = Did(s, IF peerMeta[s].ignoreOffer THEN "candidate dropped" ELSE "candidate added",
                "", TRUE, sdp.round)
  /\ UNCHANGED <<peerMeta, pcs, hist>>

\* the message listener of the socket, for a signal addressed to this client
Receive(s) ==
  /\ signals[s] # <<>>
  /\ LET data == Head(signals[s])
     IN CASE data.kind = "offer" -> handleOffer(s, data.sdp)
          [] data.kind = "answer" -> handleAnswer(s, data.sdp)
          [] data.kind = "ice" -> handleIce(s, data.sdp)
  /\ signals' = [signals EXCEPT ![s] = Tail(@)]
  /\ UNCHANGED <<budget, negRest>>

\* the engine settles the operation at the head of the chain and the code
\* that awaited it runs on
Settle(s, ok) ==
  /\ pcs[s].ops # <<>>
  /\ LET o == Head(pcs[s].ops)
         r == Execute(s, pcs[s], ok)
         c == Resume(peerMeta[s], o, r)
     IN /\ Len(signals[Other(s)]) + Len(c.send) <= MaxSignals
        /\ peerMeta' = [peerMeta EXCEPT ![s] = c.meta]
        /\ pcs' = [pcs EXCEPT ![s] = c.pc]
        /\ signals' = [signals EXCEPT ![Other(s)] = @ \o c.send]
        /\ hist' = [hist EXCEPT
                      !.done = IF r.done # NoRound THEN @ \cup {r.done} ELSE @,
                      !.accepted[s] = IF r.installed # NoRound THEN @ \cup {r.installed} ELSE @,
                      !.failed = IF ~r.ok /\ o.by = "negotiationneeded" THEN @ \cup {s} ELSE @]
        /\ did' = Did(s, o.op, o.by, r.ok, IF r.ok THEN r.pc.local.round ELSE NoRound)

EngineStep(s) ==
  /\ Settle(s, TRUE)
  /\ UNCHANGED <<budget, negRest>>

\* the engine fails to produce or install a local description
EngineFail(s) ==
  /\ budget.fail > 0
  /\ pcs[s].ops # <<>>
  /\ Head(pcs[s].ops).op = "setLocalDescription"
  /\ Settle(s, FALSE)
  /\ budget' = [budget EXCEPT !.fail = @ - 1]
  /\ UNCHANGED negRest

\* pc.addEventListener('icecandidate', ...): the engine gathers a candidate
\* for the local description it holds
IceCandidate(s) ==
  /\ budget.ice > 0
  /\ pcs[s].local # NoSdp
  /\ Len(signals[Other(s)]) < MaxSignals
  /\ budget' = [budget EXCEPT !.ice = @ - 1]
  /\ signals' = [signals EXCEPT ![Other(s)] =
                   Append(@, Signal("ice", [type |-> "candidate", round |-> pcs[s].local.round]))]
  /\ did' = Did(s, "icecandidate", "", TRUE, pcs[s].local.round)
  /\ UNCHANGED <<peerMeta, pcs, hist, negRest>>

NextNeg ==
  \/ \E s \in Sides : NegotiationNeeded(s)
  \/ \E s \in Sides : startLocalMedia(s)
  \/ \E s \in Sides : Receive(s)
  \/ \E s \in Sides : EngineStep(s)
  \/ \E s \in Sides : EngineFail(s)
  \/ \E s \in Sides : IceCandidate(s)

SpecNeg == InitNeg /\ [][NextNeg]_vars

Rounds == {NoRound} \cup [by : Sides, n : 1 .. MaxRounds]

TypeOKNeg ==
  /\ \A s \in Sides :
       /\ pcs[s].signalingState \in {"stable", "have-local-offer", "have-remote-offer"}
       /\ Len(pcs[s].ops) <= MaxOps
       /\ pcs[s].made <= MaxRounds
       /\ pcs[s].local.round \in Rounds
       /\ Len(signals[s]) <= MaxSignals
       /\ peerMeta[s].polite = (ownId[s] > ownId[Other(s)])
  /\ hist.done \subseteq Rounds

\* ---- glare: both sides need to negotiate, nothing else happens -----------

InitGlare == NegStart(0, 0, 0)

NextGlare ==
  \/ \E s \in Sides : NegotiationNeeded(s)
  \/ \E s \in Sides : Receive(s)
  \/ \E s \in Sides : EngineStep(s)

\* the browser runs every task it has queued, the engine settles every
\* operation of its chain, and the broker delivers what it relays
SpecGlare ==
  /\ InitGlare
  /\ [][NextGlare]_vars
  /\ \A s \in Sides : WF_vars(EngineStep(s)) /\ WF_vars(Receive(s))

Impolite == CHOOSE s \in Sides : ~peerMeta[s].polite

Polite == Other(Impolite)

FirstOffer(s) == [by |-> s, n |-> 1]

\* both offers are in flight at the same time
Glare ==
  \A s \in Sides : \E i \in DOMAIN signals[s] :
    signals[s][i] = Signal("offer", Offer(FirstOffer(Other(s))))

\* one exchange was completed, the impolite side's offer and the polite
\* side's answer, and both connections are stable with nothing left to do
Resolved ==
  /\ \A s \in Sides :
       /\ pcs[s].signalingState = "stable"
       /\ pcs[s].ops = <<>>
       /\ signals[s] = <<>>
  /\ hist.done = {FirstOffer(Impolite)}
  /\ hist.rejected[Impolite] = {FirstOffer(Polite)}
  /\ hist.accepted[Impolite] = {}
  /\ hist.accepted[Polite] = {FirstOffer(Impolite)}
  /\ hist.rejected[Polite] = {}
  /\ pcs[Impolite].local = Offer(FirstOffer(Impolite))
  /\ pcs[Polite].local = Answer(FirstOffer(Impolite))
  /\ pcs[Impolite].made = 1
  /\ pcs[Polite].made = 1

\* C13: when the offers of both sides are in flight at the same time, the
\* impolite side (the smaller identifier) ignores the incoming offer and keeps
\* its own, the polite side rolls its own back, installs and answers the
\* other's, the impolite side installs that answer, and both end stable with
\* exactly that one exchange completed; whichever side has the smaller
\* identifier.
C13_GlareResolves == Glare ~> []Resolved

C13_Witness == Resolved /\ ownId = <<2, 1>>

\* ---- claims about the negotiation ----------------------------------------

\* C14: at any time at most one call that produces and installs a local
\* offer is in flight on a session, whether the negotiationneeded handler
\* or renegotiatePeers made it.
C14_OneOfferAtATime ==
  \A s \in Sides : Cardinality(Pending(pcs[s], "setLocalDescription")) <= 1

\* the session's own offer is in flight: its production has started or it is
\* installed and not yet answered
OwnOfferInFlight(s) ==
  \/ Pending(pcs[s], "setLocalDescription") # {}
  \/ pcs[s].signalingState = "have-local-offer"

\* C17: an impolite session whose own offer is in flight, from the start of
\* its production by the negotiationneeded handler or by renegotiatePeers
\* until it is answered, discards an incoming offer and sets ignoreOffer; it
\* never installs the incoming offer nor answers it.  A polite session never
\* discards an incoming offer.
C17_ImpoliteOfferWins ==
  [][\A s \in Sides :
       /\ (did'.side = s /\ did'.what \in {"offer ignored", "offer taken"} /\ signals'[s] # signals[s]) =>
            IF peerMeta[s].polite
              THEN did'.what = "offer taken"
              ELSE OwnOfferInFlight(s) =>
                     /\ did'.what = "offer ignored"
                     /\ peerMeta'[s].ignoreOffer
                     /\ pcs'[s] = pcs[s]
       /\ ~peerMeta[s].polite =>
            ~(/\ pcs[s].signalingState = "have-local-offer"
              /\ pcs'[s].signalingState = "have-remote-offer")]_vars

\* C18: a candidate a session drops belongs to a round whose offer the session
\* rejected for glare; a candidate of a round the session opened itself or
\* whose offer it accepted is handed to the engine.
C18_DropsOnlyRejected ==
  [][\A s \in Sides :
       (did'.side = s /\ did'.what = "candidate dropped" /\ signals'[s] # signals[s]) =>
          /\ did'.round \in hist.rejected[s]
          /\ did'.round.by # s
          /\ did'.round \notin hist.accepted[s]]_vars

\* a negotiationneeded handler is awaiting its engine call
HandlerInFlight(s) ==
  \E i \in DOMAIN pcs[s].ops : pcs[s].ops[i].by = "negotiationneeded"

\* C19: a negotiationneeded event arriving while makingOffer is set starts
\* no engine call and sends nothing, and makingOffer is set only while a
\* handler is in flight; otherwise the handler sets makingOffer and then makes
\* the engine call; when the call settles the offer is sent if it succeeded
\* and nothing is sent if it failed, and makingOffer is false either way.
C19_NegotiationNeededGuard ==
  [][\A s \in Sides :
       /\ (did'.side = s /\ did'.what = "negotiationneeded ignored") =>
            /\ peerMeta[s].makingOffer
            /\ HandlerInFlight(s)
            /\ UNCHANGED <<peerMeta, pcs, signals>>
       /\ (did'.side = s /\ did'.what = "negotiationneeded") =>
            /\ ~peerMeta[s].makingOffer
            /\ peerMeta'[s].makingOffer
            /\ pcs'[s].ops = Append(pcs[s].ops, Op("setLocalDescription", "negotiationneeded", NoSdp))
            /\ UNCHANGED signals
       /\ (did'.side = s /\ did'.by = "negotiationneeded" /\ pcs'[s].ops # pcs[s].ops) =>
            /\ peerMeta[s].makingOffer
            /\ ~peerMeta'[s].makingOffer
            /\ signals'[s] = signals[s]
            /\ signals'[Other(s)] =
                 IF did'.ok THEN Append(signals[Other(s)], Signal("offer", pcs'[s].local))
                 ELSE signals[Other(s)]
       /\ (peerMeta'[s].makingOffer => HandlerInFlight(s)')]_vars

\* after a failed round a later event has started a new one, and an event
\* arriving during that one is ignored
C19_Witness ==
  /\ did.what = "negotiationneeded ignored"
  /\ did.side \in hist.failed
  /\ HandlerInFlight(did.side)

\* ---------------------------------------------------------------------------
\* The frame codec (src/server.js 52-118) and the buffer of the 'data'
\* handler (149-154).  A text is given by its length; its characters are
\* ASCII, so that Buffer.from(message) yields one byte per character and
\* toString('utf8') maps a byte below 128 to the character of that code.
\* A buffer is a range of the bytes on the wire, which is what
\* Buffer.concat and subarray produce from consecutive chunks.
\* ---------------------------------------------------------------------------

\* payload lengths on each side of each boundary of the length field
Sizes == {0, 125, 126, 65535, 65536}

\* the masking key of the frames a browser sends
MaskKey == <<55, 250, 33, 61>>

\* character i of a text, counted from 0
CharAt(text, i) == 32 + ((text.seed + i) % 95)

RECURSIVE Xor(_, _)
\* a ^ b on bytes
Xor(a, b) ==
  IF a = 0 THEN b
  ELSE IF b = 0 THEN a
  ELSE ((a + b) % 2) + 2 * Xor(a \div 2, b \div 2)

\* as createWebSocketFrame, with the 7-bit length used up to 126
createWebSocketFrame_sevenBit126(message) ==
  LET payloadLength == message.len
      header ==
        <<129>> \o
        (IF payloadLength < 127 THEN <<payloadLength>>
         ELSE IF payloadLength < 65536
           THEN <<126, (payloadLength \div 256) % 256, payloadLength % 256>>
           ELSE <<127, 0, 0, 0, 0,
                  (payloadLength \div 16777216) % 256,
                  (payloadLength \div 65536) % 256,
                  (payloadLength \div 256) % 256,
                  payloadLength % 256>>)
  IN [header |-> header, body |-> message, mask |-> <<>>]

createWebSocketFrame(message) ==
  LET payloadLength == message.len
      header ==
        <<129>> \o
        (IF payloadLength < 126 THEN <<payloadLength>>
         ELSE IF payloadLength < 65536
           THEN <<126, (payloadLength \div 256) % 256, payloadLength % 256>>
           ELSE <<127, 0, 0, 0, 0,
                  (payloadLength \div 16777216) % 256,
                  (payloadLength \div 65536) % 256,
                  (payloadLength \div 256) % 256,
                  payloadLength % 256>>)
  IN [header |-> header, body |-> message, mask |-> <<>>]

\* the same text as a browser frames it: mask bit set, masking key after the
\* length, payload masked (RFC 6455 5.2, 5.3)
maskedFrame(message, key) ==
  LET plain == createWebSocketFrame(message).header
  IN [header |-> <<plain[1], 128 + plain[2]>> \o SubSeq(plain, 3, Len(plain)) \o key,
      body |-> message,
      mask |-> key]

FrameLength(frame) == Len(frame.header) + frame.body.len

\* byte i of a frame, counted from 0
ByteAt(frame, i) ==
  IF i < Len(frame.header) THEN frame.header[i + 1]
  ELSE LET j == i - Len(frame.header)
       IN IF frame.mask = <<>> THEN CharAt(frame.body, j)
          ELSE Xor(CharAt(frame.body, j), frame.mask[(j % 4) + 1])

\* buffer[i], buffer.length
At(frame, buf, i) == ByteAt(frame, buf.lo + i)

Length(buf) == buf.hi - buf.lo

readUInt16BE(frame, buf, i) == At(frame, buf, i) * 256 + At(frame, buf, i + 1)

readUInt32BE(frame, buf, i) ==
  ((At(frame, buf, i) * 256 + At(frame, buf, i + 1)) * 256 + At(frame, buf, i + 2)) * 256
    + At(frame, buf, i + 3)

RECURSIVE parseLoop(_, _, _, _)
\* the while loop of parseFrames from the given offset on.  A message is
\* kept as where its payload lies on the wire, its length and its masking key
parseLoop(frame, buf, offset, messages) ==
  LET stop == [messages |-> messages, remaining |-> [lo |-> buf.lo + offset, hi |-> buf.hi]]
  IN IF offset + 2 > Length(buf) THEN stop
     ELSE
       LET first == At(frame, buf, offset)
           second == At(frame, buf, offset + 1)
           isMasked == (second \div 128) % 2 # 0
           shortLength == second % 128
       IN IF shortLength = 126 /\ offset + 4 > Length(buf) THEN stop
          ELSE IF shortLength = 127 /\ offset + 10 > Length(buf) THEN stop
          ELSE
            LET payloadLength ==
                  IF shortLength = 126 THEN readUInt16BE(frame, buf, offset + 2)
                  ELSE IF shortLength = 127 THEN readUInt32BE(frame, buf, offset + 6)
                  ELSE shortLength
                headerLength ==
                  IF shortLength = 126 THEN 4 ELSE IF shortLength = 127 THEN 10 ELSE 2
                maskOffset == offset + headerLength
                dataOffset == maskOffset + (IF isMasked THEN 4 ELSE 0)
                frameEnd == dataOffset + payloadLength
                text == [at |-> buf.lo + dataOffset,
                         len |-> payloadLength,
                         mask |-> IF isMasked
                                    THEN [i \in 1 .. 4 |-> At(frame, buf, maskOffset + i - 1)]
                                    ELSE <<>>]
            IN IF frameEnd > Length(buf) THEN stop
               ELSE parseLoop(frame, buf, frameEnd,
                              IF first % 16 = 1 THEN Append(messages, text) ELSE messages)

\* as parseFrames, returning nothing of what it did not consume
parseFrames_dropTail(frame, buf) ==
  [parseLoop(frame, buf, 0, <<>>) EXCEPT !.remaining = [lo |-> buf.hi, hi |-> buf.hi]]

parseFrames(frame, buf) == parseLoop(frame, buf, 0, <<>>)

\* character i of a decoded message: payload[i] ^ mask[i % 4], then
\* toString('utf8')
DecodedChar(frame, text, i) ==
  LET byte == IF text.mask = <<>> THEN ByteAt(frame, text.at + i)
              ELSE Xor(ByteAt(frame, text.at + i), text.mask[(i % 4) + 1])
  IN IF byte < 128 THEN byte ELSE 65533

\* the decoded message is the given text
SameText(frame, text, message) ==
  /\ text.len = message.len
  /\ \A i \in 0 .. message.len - 1 : DecodedChar(frame, text, i) = CharAt(message, i)

Texts == [len : Sizes, seed : {0}] \cup [len : {1, 4, 7}, seed : {0, 50}]

InitCodec ==
  /\ wire \in {createWebSocketFrame(m) : m \in Texts} \cup {maskedFrame(m, MaskKey) : m \in Texts}
  /\ sent = 0
  /\ buffer = [lo |-> 0, hi |-> 0]
  /\ decoded = <<>>
  /\ calls = <<>>
  /\ clients = <<>>
  /\ rooms = <<>>
  /\ used = {}
  /\ closed = {}
  /\ ev = [kind |-> "init", conn |-> 0, room |-> NoRoom, members |-> {}, msgs |-> <<>>,
           joins |-> <<>>]
  /\ writes = <<>>
  /\ joinedBy = [c \in Ids |-> {}]
  /\ view = [c \in Ids |-> NoView]
  /\ RoomIdle
  /\ NegIdle
  /\ ReconnectIdle

codecRest == <<clients, rooms, used, closed, ev, writes, joinedBy, view, roomVars, negVars,
              reconnectVars, wire>>

\* socket.on('data'): the next n bytes of the wire arrive
socketData(n) ==
  LET joined == [lo |-> buffer.lo, hi |-> buffer.hi + n]
      parsed == parseFrames(wire, joined)
  IN /\ sent' = sent + n
     /\ buffer' = parsed.remaining
     /\ decoded' = decoded \o parsed.messages
     /\ calls' = Append(calls, Len(parsed.messages))
     /\ UNCHANGED codecRest

\* the first chunk ends at any byte boundary of the frame
FirstChunk ==
  /\ calls = <<>>
  /\ \E n \in 0 .. FrameLength(wire) : socketData(n)

\* the second chunk brings the rest
RestChunk ==
  /\ Len(calls) = 1
  /\ socketData(FrameLength(wire) - sent)

NextCodec == FirstChunk \/ RestChunk

SpecCodec == InitCodec /\ [][NextCodec]_vars

\* C15: a payload of 0, 125, 126, 65535 or 65536 bytes, encoded by
\* createWebSocketFrame and decoded by parseFrames in one call, comes back as
\* exactly one message equal to the payload, with an empty remainder.
C15_RoundTrip ==
  (/\ Len(calls) = 1
   /\ sent = FrameLength(wire)
   /\ wire.body.len \in Sizes
   /\ wire = createWebSocketFrame(wire.body))
    => /\ Len(decoded) = 1
       /\ SameText(wire, decoded[1], wire.body)
       /\ Length(buffer) = 0

C15_Witness ==
  /\ calls = <<1>>
  /\ sent = FrameLength(wire)
  /\ wire = createWebSocketFrame([len |-> 65536, seed |-> 0])
  /\ Len(decoded) = 1

\* the frame decoded in one call
Whole == parseFrames(wire, [lo |-> 0, hi |-> FrameLength(wire)])

\* C16: a text frame, masked or not, decoded in two calls split at any byte
\* boundary yields the one message and the empty remainder that decoding it
\* in one call yields; when the first part is not the whole frame the first
\* call returns no message and the whole part as remainder.
C16_Resumable ==
  /\ (Len(calls) = 1 /\ sent < FrameLength(wire)) =>
       /\ decoded = <<>>
       /\ buffer = [lo |-> 0, hi |-> sent]
  /\ Len(calls) = 2 =>
       /\ decoded = Whole.messages
       /\ buffer = Whole.remaining
       /\ Len(decoded) = 1
       /\ SameText(wire, decoded[1], wire.body)
       /\ Length(buffer) = 0

C16_Witness ==
  /\ calls = <<0, 1>>
  /\ wire = maskedFrame([len |-> 65535, seed |-> 0], MaskKey)
  /\ SameText(wire, decoded[1], wire.body)

\* ---------------------------------------------------------------------------
\* Reconnecting the signaling socket (src/public/app.js 43-115, 394-410).
\* One page; a WebSocket object that is closed, has delivered its close event
\* and is not state.ws has nothing more to say, so its name is used again.
\* ---------------------------------------------------------------------------

MaxSockets == 3    \* WebSocket objects alive at one time
MaxClicks == 2     \* clicks on Join or Reconnect in one run
MaxLost == 1       \* connections the network breaks in one run
MaxAttempt == 2    \* state.wsAttempt is counted up to here

SocketIds == 1 .. MaxSockets

\* readyState CONNECTING and OPEN; a socket on its way to its close event is
\* told apart by what closed it: the page while it was open ("CLOSING"), the
\* page while it was connecting ("ABORTED"), or the network ("LOST")
Live == {"CONNECTING", "OPEN"}

Dying == {"CLOSING", "ABORTED", "LOST"}

Free == {c \in SocketIds : sockets[c] \in {"none", "CLOSED"} /\ c # page.ws}

scheduleReconnect(pg) ==
  IF pg.roomId = NoRoom THEN pg
  ELSE [pg EXCEPT !.wsAttempt = IF @ < MaxAttempt THEN @ + 1 ELSE @,
                  !.reconnectTimer = TRUE]

\* state.ws.close()
close(socks, c) ==
  IF c = NoWs THEN socks
  ELSE [socks EXCEPT ![c] = IF @ = "OPEN" THEN "CLOSING"
                            ELSE IF @ = "CONNECTING" THEN "ABORTED"
                            ELSE @]

\* connectWebSocket of the page, lines 53-64
openWebSocket(roomId) ==
  /\ Free # {}
  /\ LET c == CHOOSE x \in Free : \A y \in Free : x <= y
     IN /\ sockets' = [close(sockets, page.ws) EXCEPT ![c] = "CONNECTING"]
        /\ page' = [page EXCEPT !.ws = c, !.roomId = roomId, !.reconnectTimer = FALSE]

InitReconnect ==
  /\ page = [ws |-> NoWs, roomId |-> NoRoom, wsAttempt |-> 0, reconnectTimer |-> FALSE]
  /\ sockets = [c \in SocketIds |-> "none"]
  /\ quota \in [clicks : 1 .. MaxClicks, lost : 0 .. MaxLost]
  /\ clients = <<>>
  /\ rooms = <<>>
  /\ used = {}
  /\ closed = {}
  /\ ev = [kind |-> "init", conn |-> 0, room |-> NoRoom, members |-> {}, msgs |-> <<>>,
           joins |-> <<>>]
  /\ writes = <<>>
  /\ joinedBy = [c \in Ids |-> {}]
  /\ view = [c \in Ids |-> NoView]
  /\ RoomIdle
  /\ NegIdle
  /\ CodecIdle

reconnectRest == <<clients, rooms, used, closed, ev, writes, joinedBy, view, roomVars, negVars,
                  codecVars>>

\* joinBtn click with a room name entered
joinBtnClick ==
  /\ quota.clicks > 0
  /\ \E roomId \in TabRooms : openWebSocket(roomId)
  /\ quota' = [quota EXCEPT !.clicks = @ - 1]
  /\ UNCHANGED reconnectRest

\* reconnectBtn click
reconnectBtnClick ==
  /\ quota.clicks > 0
  /\ page.roomId # NoRoom
  /\ openWebSocket(page.roomId)
  /\ quota' = [quota EXCEPT !.clicks = @ - 1]
  /\ UNCHANGED reconnectRest

\* the callback of setTimeout(() => connectWebSocket(), delay)
TimerFired ==
  /\ page.reconnectTimer
  /\ openWebSocket(page.roomId)
  /\ UNCHANGED <<quota, reconnectRest>>

\* the open listener
SocketOpen(c) ==
  /\ sockets[c] = "CONNECTING"
  /\ sockets' = [sockets EXCEPT ![c] = "OPEN"]
  /\ page' = [page EXCEPT !.wsAttempt = 0]
  /\ UNCHANGED <<quota, reconnectRest>>

\* the close listener
SocketClose(c) ==
  /\ sockets[c] \in Dying
  /\ sockets' = [sockets EXCEPT ![c] = "CLOSED"]
  /\ page' = scheduleReconnect(page)
  /\ UNCHANGED <<quota, reconnectRest>>

\* the network breaks a connection, or the connection timeout closes a
\* socket that is still connecting
ConnectionLost(c) ==
  /\ quota.lost > 0
  /\ sockets[c] \in Live
  /\ sockets' = [sockets EXCEPT ![c] = "LOST"]
  /\ quota' = [quota EXCEPT !.lost = @ - 1]
  /\ UNCHANGED <<page, reconnectRest>>

NextReconnect ==
  \/ reconnectBtnClick
  \/ joinBtnClick
  \/ TimerFired
  \/ \E c \in SocketIds : SocketOpen(c)
  \/ \E c \in SocketIds : SocketClose(c)
  \/ \E c \in SocketIds : ConnectionLost(c)

\* the browser delivers the open and close events of its sockets and runs
\* the timer callback; clicks and network failures may or may not happen
SpecReconnect ==
  /\ InitReconnect
  /\ [][NextReconnect]_vars
  /\ WF_vars(TimerFired)
  /\ \A c \in SocketIds : WF_vars(SocketOpen(c)) /\ WF_vars(SocketClose(c))

TypeOKReconnect ==
  /\ page.ws \in SocketIds \cup {NoWs}
  /\ page.wsAttempt \in 0 .. MaxAttempt
  /\ \A c \in SocketIds : sockets[c] \in {"none", "CLOSED"} \cup Live \cup Dying
  /\ page.ws # NoWs => sockets[page.ws] # "none"

\* the page replaced a socket that was open, and neither the user nor the
\* network will do anything more
Replaced ==
  /\ \E c \in SocketIds : sockets[c] = "CLOSING"
  /\ quota.clicks = 0
  /\ quota.lost = 0

\* one open socket, no reconnect timer pending
Healthy ==
  /\ page.ws # NoWs
  /\ sockets[page.ws] = "OPEN"
  /\ ~page.reconnectTimer
  /\ \A c \in SocketIds \ {page.ws} : sockets[c] \notin Live

\* the close event of a socket the page replaced while it was open leaves a
\* reconnect scheduled against the socket the page holds now
ReplacedCloseSchedules ==
  \E c \in SocketIds :
    /\ sockets[c] = "CLOSING"
    /\ sockets'[c] = "CLOSED"
    /\ page'.reconnectTimer
    /\ sockets'[page'.ws] \in Live

\* C21: once connectWebSocket has replaced a socket that was still open and
\* nothing fails afterwards, the page comes to hold one open socket that
\* stays open with no reconnect timer pending; the close event of the
\* replaced socket schedules no reconnect against the new one.
C21_ReconnectSettles ==
  /\ [][~ReplacedCloseSchedules]_vars
  /\ Replaced ~> []Healthy
====
